---- MODULE Spec2Model ----
(***************************************************************************)
(* db.js: the IndexedDB helper module of the car dispatch application.     *)
(*                                                                         *)
(* The persistent store (version, object stores, rows, key generators) is  *)
(* the on-disk state.  Every exported function wraps one transaction; its  *)
(* requests are delivered one event at a time, and each event handler of   *)
(* the source is one step of the model.  Read-write transactions whose     *)
(* scopes overlap run one after another in creation order; a request that  *)
(* fails aborts its transaction unless the handler prevents it (no handler *)
(* of db.js does), and a commit may fail for a reason of the engine's own. *)
(***************************************************************************)
EXTENDS Integers, Sequences, FiniteSets, TLC

\* ------------------------------------------------------------ constants
DB_VERSION == 2
STORE_FAMILIES == "families"
STORE_CARS == "cars"
STORE_SAVED_STATES == "savedStates"
STORE_SAVED_PARKING == "savedParking"

\* `let db;` : the module-level handle before any open has succeeded.
Undefined == 0

StoreNames == {STORE_FAMILIES, STORE_CARS, STORE_SAVED_STATES, STORE_SAVED_PARKING}

\* createObjectStore(..., { keyPath, autoIncrement })
KeyPath(store) == IF store = STORE_FAMILIES THEN "familyName" ELSE "id"

AutoIncrement(store) == store \in {STORE_SAVED_STATES, STORE_SAVED_PARKING}

\* ------------------------------------------------------------ bounds
\* Timestamps a caller passes to an append, and the capacities it passes.
MaxTimestamp == 3
\* The stored histories a retention run starts from: their rows and stamps.
StoredRows == 5
StoredStamp == 6
MaxLimit == 2
\* The key generator stops the model once it has handed out this many keys.
MaxKey == 4
\* Appends a caller fires without awaiting, their timestamps and capacities.
ConcCalls == 2
ConcStamp == 2
ConcLimit == 1
\* Calls of one keyed-store run.
MaxKvCalls == 3
\* Records of one bulk batch.
MaxBatch == 2
\* Keys a history hands out in a reset run or an open run.
ResetKeys == 2
\* openDB calls issued before any of them has answered.
OpenRaces == 2
\* openDB calls of one migration run.
MaxOpens == 2
\* Keys and timestamps of a stored history of any shape.
HistoryKeys == 3
HistoryStamp == 2

\* ------------------------------------------------------------ state
VARIABLES
    db,               \* the module variable `db`: Undefined or a handle
    connections,      \* handles the engine has opened for this process
    version,          \* on-disk version of CarDispatchDB (0: not created)
    objectStoreNames, \* object stores that exist on disk
    rows,             \* rows[store][key]: the committed record under key
    keyGen,           \* keyGen[store]: the next key of an auto-increment store
    ops,              \* calls in flight, in the order they were issued
    ev,               \* the last step taken and what it reported
    hist              \* issue-ordered record of the calls (concurrency runs)

vars == <<db, connections, version, objectStoreNames, rows, keyGen, ops, ev, hist>>

disk == <<version, objectStoreNames, rows, keyGen>>

\* ------------------------------------------------------------ helpers
RemoveAt(s, i) == SubSeq(s, 1, i - 1) \o SubSeq(s, i + 1, Len(s))

Max(a, b) == IF a >= b THEN a ELSE b

EmptyTable == [k \in {} |-> 0]

HasKey(store, value) == KeyPath(store) \in DOMAIN value

\* The value with the generated key written at the key path.
InjectKey(store, value, key) ==
    [f \in DOMAIN value \cup {KeyPath(store)} |->
        IF f = KeyPath(store) THEN key ELSE value[f]]

\* A transaction's view: its own uncommitted copy once it has started, the
\* committed store before that.
View(o) == IF o.started THEN o.work ELSE [rows |-> rows, keyGen |-> keyGen]

\* A put that patches the existing row instead of replacing it.
StorePutMerging(w, store, value) ==
    LET key == IF HasKey(store, value) THEN value[KeyPath(store)] ELSE w.keyGen[store]
        stored == IF HasKey(store, value) THEN value ELSE InjectKey(store, value, key)
        old == IF key \in DOMAIN w.rows[store] THEN w.rows[store][key] ELSE stored
    IN [w EXCEPT !.rows[store] =
                     [k \in DOMAIN w.rows[store] \cup {key} |->
                         IF k = key
                         THEN [f \in DOMAIN old \cup DOMAIN stored |->
                                  IF f \in DOMAIN stored THEN stored[f] ELSE old[f]]
                         ELSE w.rows[store][k]],
                 !.keyGen[store] = IF AutoIncrement(store) THEN Max(@, key + 1) ELSE @]

\* IDBObjectStore.put: the key comes from the key path when the value has
\* one, from the key generator otherwise; an existing row under the key is
\* replaced by the value as a whole.
StorePut(w, store, value) ==
    LET key == IF HasKey(store, value) THEN value[KeyPath(store)] ELSE w.keyGen[store]
        stored == IF HasKey(store, value) THEN value ELSE InjectKey(store, value, key)
    IN [w EXCEPT !.rows[store] =
                     [k \in DOMAIN w.rows[store] \cup {key} |->
                         IF k = key THEN stored ELSE w.rows[store][k]],
                 !.keyGen[store] = IF AutoIncrement(store) THEN Max(@, key + 1) ELSE @]

\* IDBObjectStore.delete / IDBCursor.delete
StoreDelete(w, store, key) ==
    [w EXCEPT !.rows[store] = [k \in DOMAIN w.rows[store] \ {key} |-> w.rows[store][k]]]

\* IDBObjectStore.clear
StoreClear(w, store) == [w EXCEPT !.rows[store] = EmptyTable]

\* IDBObjectStore.count
StoreCount(w, store) == Cardinality(DOMAIN w.rows[store])

\* The entries of the 'timestamp' index: <<timestamp, primary key>> of every
\* row that has a timestamp.  A cursor walks them in ascending order of
\* timestamp and, among equal timestamps, of primary key.
IndexEntries(w, store) ==
    {<<w.rows[store][k].timestamp, k>> :
        k \in {x \in DOMAIN w.rows[store] : "timestamp" \in DOMAIN w.rows[store][x]}}

EntryLess(a, b) == a[1] < b[1] \/ (a[1] = b[1] /\ a[2] < b[2])

\* A cursor opened on the store instead of the index: ascending primary key.
CursorAfterByKey(w, store, pos) ==
    LET later == {e \in IndexEntries(w, store) : e[2] > pos[2]} IN
    IF later = {} THEN <<>>
    ELSE CHOOSE e \in later : \A f \in later : e[2] <= f[2]

\* index.openCursor(null, 'next') and cursor.continue(): the first entry
\* after position pos; <<>> when the cursor is exhausted (a null cursor).
CursorAfter(w, store, pos) ==
    LET later == {e \in IndexEntries(w, store) : EntryLess(pos, e)} IN
    IF later = {} THEN <<>>
    ELSE CHOOSE e \in later : \A f \in later : e = f \/ EntryLess(e, f)

BeforeAll == <<0, 0>>

\* An engine that isolates nothing.
ConflictsNever(a, b) == FALSE

\* Two transactions cannot run at once when their scopes overlap and one of
\* them writes; open requests are served one at a time.
Conflicts(a, b) ==
    \/ a.mode = "versionchange" /\ b.mode = "versionchange"
    \/ /\ a.scope \cap b.scope # {}
       /\ "readwrite" \in {a.mode, b.mode}

\* db.transaction(store, 'readwrite'): the engine runs the i-th call's
\* requests only when no call issued before it holds a conflicting scope.
CanRun(i) == \A j \in 1..(i - 1) : ~Conflicts(ops[j], ops[i])

NoWork == <<>>

NewOp(op, scope, mode, pc, arg, limit, tag) ==
    [op |-> op, scope |-> scope, mode |-> mode, pc |-> pc, arg |-> arg,
     limit |-> limit, promise |-> "pending", hooked |-> TRUE,
     n |-> 0, d |-> 0, pos |-> BeforeAll,
     started |-> FALSE, work |-> NoWork, tag |-> tag]

Event(op, step, promise, error, arg, limit, tag, result) ==
    [op |-> op, step |-> step, promise |-> promise, error |-> error,
     arg |-> arg, limit |-> limit, tag |-> tag, result |-> result,
     pre |-> rows, preGen |-> keyGen, preDb |-> db,
     preOpened |-> connections, preOps |-> Len(ops),
     preVersion |-> version, preNames |-> objectStoreNames]

EventOf(o, step, promise, error) ==
    Event(o.op, step, promise, error, o.arg, o.limit, o.tag, 0)

\* The transaction of the i-th call commits: its scope's stores take its view.
CommitWrites(o) ==
    /\ rows' = [s \in StoreNames |-> IF s \in o.scope THEN View(o).rows[s] ELSE rows[s]]
    /\ keyGen' = [s \in StoreNames |-> IF s \in o.scope THEN View(o).keyGen[s] ELSE keyGen[s]]

Started(o, w) == [o EXCEPT !.started = TRUE, !.work = w]

\* The ghost record of the tagged calls: a call that got its transaction is
\* entered under its tag (callers number them 1, 2, ... in issue order) and
\* marked when the transaction completes or aborts.  Untagged calls (tag 0)
\* leave it alone.
Record(h, e) ==
    IF e.tag = 0 THEN h
    ELSE IF e.step = "call"
    THEN (IF e.promise = "pending"
          THEN Append(h, [op |-> e.op, arg |-> e.arg, limit |-> e.limit,
                          status |-> "pending", promise |-> "pending"])
          ELSE Append(h, [op |-> e.op, arg |-> e.arg, limit |-> e.limit,
                          status |-> "none", promise |-> e.promise]))
    ELSE IF e.step = "complete"
    THEN [h EXCEPT ![e.tag].status = "committed", ![e.tag].promise = e.promise]
    ELSE IF e.step = "abort"
    THEN [h EXCEPT ![e.tag].status = "aborted", ![e.tag].promise = e.promise]
    ELSE [h EXCEPT ![e.tag].promise = e.promise]

Log == hist' = Record(hist, ev')

\* ------------------------------------------------------------ Init
Init ==
    /\ db = Undefined
    /\ connections = 0
    /\ version = 0
    /\ objectStoreNames = {}
    /\ rows = [s \in StoreNames |-> EmptyTable]
    /\ keyGen = [s \in StoreNames |-> 1]
    /\ ops = <<>>
    /\ hist = <<>>
    /\ ev = [op |-> "load", step |-> "init", promise |-> "none", error |-> "none",
             arg |-> 0, limit |-> 0, tag |-> 0, result |-> 0,
             pre |-> [s \in StoreNames |-> EmptyTable],
             preGen |-> [s \in StoreNames |-> 1], preDb |-> Undefined,
             preOpened |-> 0, preOps |-> 0, preVersion |-> 0, preNames |-> {}]

\* ------------------------------------------------------------ openDB
RECURSIVE PutAll(_, _, _, _)
\* forEach(value => store.put(value)) from the i-th element on
PutAll(w, store, values, i) ==
    IF i > Len(values) THEN w
    ELSE PutAll(StorePut(w, store, values[i]), store, values, i + 1)

\* A default that also replaces a supplied order of 0 (`||` for `??`).
FamilyWithOrderFalsy(family, index) ==
    [f \in DOMAIN family \cup {"order"} |->
        IF f = "order"
        THEN (IF "order" \in DOMAIN family /\ family.order # 0 THEN family.order ELSE index)
        ELSE family[f]]

\* { ...family, order: family.order ?? index }, index counted from 0
FamilyWithOrder(family, index) ==
    [f \in DOMAIN family \cup {"order"} |->
        IF f = "order"
        THEN (IF "order" \in DOMAIN family THEN family.order ELSE index)
        ELSE family[f]]

WithOrders(families) == [i \in 1..Len(families) |-> FamilyWithOrder(families[i], i - 1)]

\* tempDb.createObjectStore(store, ...) unless the store is there already
CreateIfAbsent(w, store) ==
    IF store \in w.names THEN w
    ELSE [w EXCEPT !.names = @ \cup {store},
                   !.rows[store] = EmptyTable,
                   !.keyGen[store] = 1]

\* The v1 step of onupgradeneeded: the two keyed stores and the default data.
UpgradeV1(w, defaultFamilies, defaultCars) ==
    LET created == CreateIfAbsent(CreateIfAbsent(w, STORE_FAMILIES), STORE_CARS)
        seeded == IF Len(defaultFamilies) > 0
                  THEN PutAll(created, STORE_FAMILIES, WithOrders(defaultFamilies), 1)
                  ELSE created
    IN IF Len(defaultCars) > 0 THEN PutAll(seeded, STORE_CARS, defaultCars, 1) ELSE seeded

\* The v2 step of onupgradeneeded: the two history stores.
UpgradeV2(w) == CreateIfAbsent(CreateIfAbsent(w, STORE_SAVED_STATES), STORE_SAVED_PARKING)

\* A handler whose v1 step runs whenever the store is behind DB_VERSION.
OnUpgradeNeededReseeding(w, oldVersion, defaultFamilies, defaultCars) ==
    LET v1 == IF oldVersion < 2 THEN UpgradeV1(w, defaultFamilies, defaultCars) ELSE w
    IN IF oldVersion < 2 THEN UpgradeV2(v1) ELSE v1

\* A handler whose steps exclude each other (`else if`).
OnUpgradeNeededElseIf(w, oldVersion, defaultFamilies, defaultCars) ==
    IF oldVersion < 1 THEN UpgradeV1(w, defaultFamilies, defaultCars)
    ELSE IF oldVersion < 2 THEN UpgradeV2(w) ELSE w

\* request.onupgradeneeded, from event.oldVersion
OnUpgradeNeeded(w, oldVersion, defaultFamilies, defaultCars) ==
    LET v1 == IF oldVersion < 1 THEN UpgradeV1(w, defaultFamilies, defaultCars) ELSE w
    IN IF oldVersion < 2 THEN UpgradeV2(v1) ELSE v1

\* store.put throws DataError at once for a value without a key when the
\* store has no key generator; the handler does not catch it.
PutThrows(store, value) == ~AutoIncrement(store) /\ ~HasKey(store, value)

SeedThrows(oldVersion, defaultFamilies, defaultCars) ==
    /\ oldVersion < 1
    /\ \/ \E i \in 1..Len(defaultFamilies) : PutThrows(STORE_FAMILIES, defaultFamilies[i])
       \/ \E i \in 1..Len(defaultCars) : PutThrows(STORE_CARS, defaultCars[i])

\* An openDB without the `if (db)` shortcut.
openDBAlways(defaultFamilies, defaultCars, tag) ==
    LET arg == [families |-> defaultFamilies, cars |-> defaultCars] IN
    /\ ops' = Append(ops, NewOp("openDB", {}, "versionchange", "open", arg, 0, tag))
    /\ ev' = Event("openDB", "call", "pending", "none", arg, 0, tag, 0)
    /\ UNCHANGED <<db, connections, disk>>
    /\ hist' = Record(hist, ev')

\* openDB(defaultFamilies, defaultCars): `if (db) return resolve(db)`,
\* otherwise indexedDB.open(DB_NAME, DB_VERSION).
openDB(defaultFamilies, defaultCars, tag) ==
    LET arg == [families |-> defaultFamilies, cars |-> defaultCars] IN
    /\ IF db # Undefined
       THEN /\ ev' = Event("openDB", "call", "resolved", "none", arg, 0, tag, db)
            /\ UNCHANGED ops
       ELSE /\ ops' = Append(ops, NewOp("openDB", {}, "versionchange", "open", arg, 0, tag))
            /\ ev' = Event("openDB", "call", "pending", "none", arg, 0, tag, 0)
    /\ UNCHANGED <<db, connections, disk>>
    /\ Log

\* An onerror that keeps the failed request as the handle.
OpenRequestStale(i, ok) ==
    LET o == ops[i] IN
    /\ o.op = "openDB" /\ o.pc = "open" /\ CanRun(i)
    /\ IF ~ok
       THEN /\ ops' = RemoveAt(ops, i)
            /\ ev' = EventOf(o, "error", "rejected", "open failed")
            /\ db' = connections + 1
            /\ UNCHANGED <<connections, disk>>
       ELSE IF version < DB_VERSION
       THEN IF SeedThrows(version, o.arg.families, o.arg.cars)
            THEN /\ ops' = RemoveAt(ops, i)
                 /\ ev' = EventOf(o, "error", "rejected", "open failed")
                 /\ UNCHANGED <<db, connections, disk>>
            ELSE /\ ops' = [ops EXCEPT ![i] =
                      [Started(o, OnUpgradeNeeded(
                          [names |-> objectStoreNames, rows |-> rows, keyGen |-> keyGen],
                          version, o.arg.families, o.arg.cars))
                       EXCEPT !.pc = "upgrade"]]
                 /\ ev' = EventOf(o, "upgradeneeded", "pending", "none")
                 /\ UNCHANGED <<db, connections, disk>>
       ELSE /\ db' = connections + 1
            /\ connections' = connections + 1
            /\ ops' = RemoveAt(ops, i)
            /\ ev' = Event("openDB", "success", "resolved", "none", o.arg, 0, o.tag,
                           connections + 1)
            /\ UNCHANGED disk
    /\ hist' = Record(hist, ev')

\* The engine serves the open request: it fails (request.onerror), or the
\* store is behind DB_VERSION and onupgradeneeded runs inside the upgrade
\* transaction, or the store is current and request.onsuccess sets db.
OpenRequest(i, ok) ==
    LET o == ops[i] IN
    /\ o.op = "openDB" /\ o.pc = "open" /\ CanRun(i)
    /\ IF ~ok
       THEN /\ ops' = RemoveAt(ops, i)
            /\ ev' = EventOf(o, "error", "rejected", "open failed")
            /\ UNCHANGED <<db, connections, disk>>
       ELSE IF version < DB_VERSION
       THEN IF SeedThrows(version, o.arg.families, o.arg.cars)
            THEN /\ ops' = RemoveAt(ops, i)
                 /\ ev' = EventOf(o, "error", "rejected", "open failed")
                 /\ UNCHANGED <<db, connections, disk>>
            ELSE /\ ops' = [ops EXCEPT ![i] =
                      [Started(o, OnUpgradeNeeded(
                          [names |-> objectStoreNames, rows |-> rows, keyGen |-> keyGen],
                          version, o.arg.families, o.arg.cars))
                       EXCEPT !.pc = "upgrade"]]
                 /\ ev' = EventOf(o, "upgradeneeded", "pending", "none")
                 /\ UNCHANGED <<db, connections, disk>>
       ELSE /\ db' = connections + 1
            /\ connections' = connections + 1
            /\ ops' = RemoveAt(ops, i)
            /\ ev' = Event("openDB", "success", "resolved", "none", o.arg, 0, o.tag,
                           connections + 1)
            /\ UNCHANGED disk
    /\ Log

\* The upgrade transaction ends: it commits the new schema, the seed rows
\* and the version together, or it aborts (a seed put failed, or the commit
\* did) and the open request fails with nothing kept.
OpenUpgradeEnd(i, ok) ==
    LET o == ops[i] IN
    /\ o.op = "openDB" /\ o.pc = "upgrade"
    /\ IF ok
       THEN /\ version' = DB_VERSION
            /\ objectStoreNames' = o.work.names
            /\ rows' = o.work.rows
            /\ keyGen' = o.work.keyGen
            /\ ops' = [ops EXCEPT ![i].pc = "success"]
            /\ ev' = EventOf(o, "upgraded", "pending", "none")
            /\ UNCHANGED <<db, connections>>
       ELSE /\ ops' = RemoveAt(ops, i)
            /\ ev' = EventOf(o, "error", "rejected", "open failed")
            /\ UNCHANGED <<db, connections, disk>>
    /\ Log

\* request.onsuccess after an upgrade: db = event.target.result; resolve(db)
OpenSuccess(i) ==
    LET o == ops[i] IN
    /\ o.op = "openDB" /\ o.pc = "success"
    /\ db' = connections + 1
    /\ connections' = connections + 1
    /\ ops' = RemoveAt(ops, i)
    /\ ev' = Event("openDB", "success", "resolved", "none", o.arg, 0, o.tag, connections + 1)
    /\ UNCHANGED disk
    /\ Log

\* ------------------------------------------------------------ append
AppendName(store) == IF store = STORE_SAVED_STATES THEN "addSavedState" ELSE "addSavedParking"

IsAppend(o) == o.op \in {"addSavedState", "addSavedParking"}

StoreOf(o) == CHOOSE s \in o.scope : TRUE

\* The call itself: the not-open guard, the transaction, store.put(data).
AppendCall(store, data, limit, tag) ==
    /\ IF db = Undefined
       THEN /\ ev' = Event(AppendName(store), "call", "rejected", "DB not open",
                           data, limit, tag, 0)
            /\ UNCHANGED ops
       ELSE /\ ops' = Append(ops, NewOp(AppendName(store), {store}, "readwrite", "put",
                                        data, limit, tag))
            /\ ev' = Event(AppendName(store), "call", "pending", "none", data, limit, tag, 0)
    /\ UNCHANGED <<db, connections, disk>>
    /\ Log

addSavedState(stateData, limit, tag) == AppendCall(STORE_SAVED_STATES, stateData, limit, tag)

addSavedParking(parkingData, limit, tag) == AppendCall(STORE_SAVED_PARKING, parkingData, limit, tag)

\* A handler that kept the error from aborting the transaction (calling
\* preventDefault): what was done so far is committed.
AppendRequestFailsKept(i) ==
    /\ ops' = RemoveAt(ops, i)
    /\ ev' = Event(ops[i].op, "abort", "rejected", "null", ops[i].arg, ops[i].limit,
                   ops[i].tag, ops[i].d)
    /\ CommitWrites(ops[i])
    /\ UNCHANGED <<db, connections, version, objectStoreNames>>

\* A request of the transaction fails: nothing handles the error event on
\* the request, it reaches tx.onerror, which rejects with tx.error (still
\* null while the event is dispatched), and the transaction aborts.
AppendRequestFails(i) ==
    /\ ops' = RemoveAt(ops, i)
    /\ ev' = Event(ops[i].op, "abort", "rejected", "null", ops[i].arg, ops[i].limit,
                   ops[i].tag, ops[i].d)
    /\ UNCHANGED <<db, connections, disk>>

\* An append that first drops the rows of the same name.
AppendPutDedup(i, ok) ==
    LET o == ops[i]
        w == View(o)
        t == w.rows[StoreOf(o)]
        others == [k \in {j \in DOMAIN t : t[j].name # o.arg.name} |-> t[k]]
    IN
    /\ IsAppend(o) /\ o.pc = "put" /\ CanRun(i)
    /\ IF ok
       THEN /\ ops' = [ops EXCEPT ![i] =
                  [Started(o, StorePut([w EXCEPT !.rows[StoreOf(o)] = others],
                                       StoreOf(o), o.arg))
                   EXCEPT !.pc = "count"]]
            /\ ev' = EventOf(o, "put", "pending", "none")
            /\ UNCHANGED <<db, connections, disk>>
       ELSE AppendRequestFails(i)
    /\ hist' = Record(hist, ev')

\* store.put(data).onsuccess: the row is in, store.count() is asked.
AppendPut(i, ok) ==
    LET o == ops[i] IN
    /\ IsAppend(o) /\ o.pc = "put" /\ CanRun(i)
    /\ IF ok
       THEN /\ ops' = [ops EXCEPT ![i] =
                  [Started(o, StorePut(View(o), StoreOf(o), o.arg)) EXCEPT !.pc = "count"]]
            /\ ev' = EventOf(o, "put", "pending", "none")
            /\ UNCHANGED <<db, connections, disk>>
       ELSE AppendRequestFails(i)
    /\ Log

\* A prune that stops one row short.
ItemsToDeleteOneShort(count, limit) == count - limit - 1

\* const itemsToDelete = count - limit
ItemsToDelete(count, limit) == count - limit

\* store.count().onsuccess: over the limit, open the ascending cursor on the
\* timestamp index with count - limit items to delete.
AppendCount(i, ok) ==
    LET o == ops[i]
        count == StoreCount(o.work, StoreOf(o))
    IN
    /\ IsAppend(o) /\ o.pc = "count"
    /\ IF ok
       THEN /\ ops' = [ops EXCEPT ![i] =
                  IF count > o.limit
                  THEN [o EXCEPT !.pc = "cursor", !.n = ItemsToDelete(count, o.limit), !.d = 0,
                                 !.pos = BeforeAll]
                  ELSE [o EXCEPT !.pc = "complete"]]
            /\ ev' = EventOf(o, "count", "pending", "none")
            /\ UNCHANGED <<db, connections, disk>>
       ELSE AppendRequestFails(i)
    /\ Log

\* cursorRequest.onsuccess: `if (cursor && deletedCount < itemsToDelete)`
\* delete the row under the cursor, count it and continue; otherwise the
\* handler issues nothing more and the transaction is left to complete.
AppendCursor(i, ok) ==
    LET o == ops[i]
        cursor == CursorAfter(o.work, StoreOf(o), o.pos)
    IN
    /\ IsAppend(o) /\ o.pc = "cursor"
    /\ IF ok
       THEN /\ ops' = [ops EXCEPT ![i] =
                  IF cursor # <<>> /\ o.d < o.n
                  THEN [o EXCEPT !.work = StoreDelete(o.work, StoreOf(o), cursor[2]),
                                 !.d = o.d + 1,
                                 !.pos = cursor]
                  ELSE [o EXCEPT !.pc = "complete"]]
            /\ ev' = EventOf(o, "cursor", "pending", "none")
            /\ UNCHANGED <<db, connections, disk>>
       ELSE AppendRequestFails(i)
    /\ Log

\* The transaction ends: tx.oncomplete resolves once the insert and the
\* prune are committed together; when the commit itself fails the engine
\* fires only `abort`, which the function does not listen to.
AppendComplete(i, ok) ==
    LET o == ops[i] IN
    /\ IsAppend(o) /\ o.pc = "complete"
    /\ ops' = RemoveAt(ops, i)
    /\ IF ok
       THEN /\ CommitWrites(o)
            /\ ev' = EventOf(o, "complete", "resolved", "none")
       ELSE /\ ev' = EventOf(o, "abort", "pending", "commit failed")
            /\ UNCHANGED <<rows, keyGen>>
    /\ UNCHANGED <<db, connections, version, objectStoreNames>>
    /\ Log


\* ------------------------------------------------------------ one request
\* The functions that place one request in a transaction of their own:
\* the operation on the store, the transaction mode, and (reads) the result.
Puts == {"addFamily", "addCar"}
Deletes == {"deleteFamily", "deleteCar", "deleteSavedState", "deleteSavedParking"}
Clears == {"clearFamilies", "clearCars"}
GetOnes == {"getFamily", "getCar", "getSavedState", "getSavedParking"}
GetAlls == {"getAllFamilies", "getAllCars"}
GetAllSorted == {"getAllSavedStates", "getAllSavedParking"}
Reads == GetOnes \cup GetAlls \cup GetAllSorted
Simple == Puts \cup Deletes \cup Clears \cup Reads

\* The store each function opens its transaction on.
StoreFor(op) ==
    IF op \in {"getFamily", "getAllFamilies", "addFamily", "deleteFamily", "clearFamilies",
               "bulkAddFamilies"}
    THEN STORE_FAMILIES
    ELSE IF op \in {"getCar", "getAllCars", "addCar", "deleteCar", "clearCars", "bulkAddCars"}
    THEN STORE_CARS
    ELSE IF op \in {"getSavedState", "getAllSavedStates", "addSavedState", "deleteSavedState"}
    THEN STORE_SAVED_STATES
    ELSE STORE_SAVED_PARKING

ModeFor(op) == IF op \in Reads THEN "readonly" ELSE "readwrite"

\* The order of keys: generated keys are numbers; the names and ids of the
\* keyed stores are strings, compared as the engine compares strings.
StringOrder == <<"A", "B", "C", "c1", "c2", "c3">>

StringRank(k) == CHOOSE i \in 1..Len(StringOrder) : StringOrder[i] = k

KeyLessEq(store, a, b) ==
    IF AutoIncrement(store) THEN a <= b ELSE StringRank(a) <= StringRank(b)

\* The keys of a table in ascending order (the order of store.getAll()).
RECURSIVE Ascending(_, _)
Ascending(store, keys) ==
    IF keys = {} THEN <<>>
    ELSE LET least == CHOOSE k \in keys : \A x \in keys : KeyLessEq(store, k, x)
         IN <<least>> \o Ascending(store, keys \ {least})

\* store.getAll(): the rows in ascending key order
GetAll(w, store) ==
    LET order == Ascending(store, DOMAIN w.rows[store])
    IN [i \in 1..Len(order) |-> w.rows[store][order[i]]]

\* The comparator turned round (a.timestamp - b.timestamp).
RECURSIVE SortAscending(_)
SortAscending(list) ==
    IF Len(list) <= 1 THEN list
    ELSE LET sorted == SortAscending(SubSeq(list, 1, Len(list) - 1))
             last == list[Len(list)]
             keep == Cardinality({i \in 1..Len(sorted) :
                                    sorted[i].timestamp <= last.timestamp})
         IN SubSeq(sorted, 1, keep) \o <<last>> \o SubSeq(sorted, keep + 1, Len(sorted))

\* Array.prototype.sort((a, b) => b.timestamp - a.timestamp): a stable sort,
\* here by insertion: an element goes after the elements that do not sort
\* after it.
RECURSIVE SortDescending(_)
SortDescending(list) ==
    IF Len(list) <= 1 THEN list
    ELSE LET sorted == SortDescending(SubSeq(list, 1, Len(list) - 1))
             last == list[Len(list)]
             keep == Cardinality({i \in 1..Len(sorted) :
                                    sorted[i].timestamp >= last.timestamp})
         IN SubSeq(sorted, 1, keep) \o <<last>> \o SubSeq(sorted, keep + 1, Len(sorted))

\* resolve(request.result) of a read; undefined is the value NoRow.
NoRow == <<>>

ReadResult(op, w, arg) ==
    LET store == StoreFor(op) IN
    IF op \in GetOnes
    THEN (IF arg \in DOMAIN w.rows[store] THEN w.rows[store][arg] ELSE NoRow)
    ELSE IF op \in GetAlls THEN GetAll(w, store)
    ELSE SortDescending(GetAll(w, store))

\* A delete that takes no key and empties the store.
WriteEffectClears(op, w, arg) ==
    IF op \in Puts THEN StorePut(w, StoreFor(op), arg) ELSE StoreClear(w, StoreFor(op))

\* What the single request of a writing function does to the store.
WriteEffect(op, w, arg) ==
    IF op \in Puts THEN StorePut(w, StoreFor(op), arg)
    ELSE IF op \in Deletes THEN StoreDelete(w, StoreFor(op), arg)
    ELSE StoreClear(w, StoreFor(op))

\* A function without the `if (!db)` guard: db.transaction on undefined
\* throws a TypeError in the executor.
SimpleCallUnguarded(op, arg, tag) ==
    /\ op \in Simple
    /\ IF db = Undefined
       THEN /\ ev' = Event(op, "call", "rejected", "TypeError", arg, 0, tag, 0)
            /\ UNCHANGED ops
       ELSE /\ ops' = Append(ops, NewOp(op, {StoreFor(op)}, ModeFor(op), "request",
                                        arg, 0, tag))
            /\ ev' = Event(op, "call", "pending", "none", arg, 0, tag, 0)
    /\ UNCHANGED <<db, connections, disk>>
    /\ hist' = Record(hist, ev')

\* The call of such a function: `if (!db) return reject('DB not open')`,
\* the transaction, the request.  A put of a value without a key throws in
\* the executor, which rejects the promise; the transaction holds no
\* request then and completes without effect.
SimpleCall(op, arg, tag) ==
    /\ op \in Simple
    /\ IF db = Undefined
       THEN /\ ev' = Event(op, "call", "rejected", "DB not open", arg, 0, tag, 0)
            /\ UNCHANGED ops
       ELSE IF op \in Puts /\ PutThrows(StoreFor(op), arg)
       THEN /\ ev' = Event(op, "call", "rejected", "DataError", arg, 0, tag, 0)
            /\ UNCHANGED ops
       ELSE /\ ops' = Append(ops, NewOp(op, {StoreFor(op)}, ModeFor(op), "request",
                                        arg, 0, tag))
            /\ ev' = Event(op, "call", "pending", "none", arg, 0, tag, 0)
    /\ UNCHANGED <<db, connections, disk>>
    /\ Log

\* request.onsuccess = () => resolve(...); request.onerror = () =>
\* reject(request.error).  A read's transaction has nothing to commit; a
\* write has resolved before its transaction completes.
SimpleRequest(i, ok) ==
    LET o == ops[i] IN
    /\ o.op \in Simple /\ o.pc = "request" /\ CanRun(i)
    /\ IF ~ok
       THEN /\ ops' = RemoveAt(ops, i)
            /\ ev' = EventOf(o, "abort", "rejected", "StorageError")
       ELSE IF o.op \in Reads
       THEN /\ ops' = RemoveAt(ops, i)
            /\ ev' = Event(o.op, "success", "resolved", "none", o.arg, 0, o.tag,
                           ReadResult(o.op, View(o), o.arg))
       ELSE /\ ops' = [ops EXCEPT ![i] =
                  [Started(o, WriteEffect(o.op, View(o), o.arg))
                   EXCEPT !.pc = "complete", !.promise = "resolved"]]
            /\ ev' = EventOf(o, "success", "resolved", "none")
    /\ UNCHANGED <<db, connections, disk>>
    /\ Log

\* The transaction of a write ends after its promise has resolved: it
\* commits, or the commit fails and nothing is kept.
SimpleComplete(i, ok) ==
    LET o == ops[i] IN
    /\ o.op \in Simple /\ o.pc = "complete"
    /\ ops' = RemoveAt(ops, i)
    /\ IF ok
       THEN /\ CommitWrites(o)
            /\ ev' = EventOf(o, "complete", o.promise, "none")
       ELSE /\ ev' = EventOf(o, "abort", o.promise, "commit failed")
            /\ UNCHANGED <<rows, keyGen>>
    /\ UNCHANGED <<db, connections, version, objectStoreNames>>
    /\ Log

\* ------------------------------------------------------------ bulk put
Bulks == {"bulkAddFamilies", "bulkAddCars"}

\* The first record of the batch whose put throws; 0 when none does.
FirstThrow(store, records) ==
    LET bad == {i \in 1..Len(records) : PutThrows(store, records[i])} IN
    IF bad = {} THEN 0 ELSE CHOOSE i \in bad : \A j \in bad : i <= j

\* bulkAddFamilies / bulkAddCars: the empty batch resolves at once; forEach
\* places one put per record.  A put that throws leaves forEach and the
\* executor: the promise is rejected with the exception, the puts placed
\* before it stay in the transaction, tx.oncomplete and tx.onerror are
\* never set, and nothing aborts the transaction.
BulkCall(op, records, tag) ==
    LET store == StoreFor(op)
        bad == FirstThrow(store, records)
    IN
    /\ op \in Bulks
    /\ IF db = Undefined
       THEN /\ ev' = Event(op, "call", "rejected", "DB not open", records, 0, tag, 0)
            /\ UNCHANGED ops
       ELSE IF Len(records) = 0
       THEN /\ ev' = Event(op, "call", "resolved", "none", records, 0, tag, 0)
            /\ UNCHANGED ops
       ELSE IF bad = 1
       THEN /\ ev' = Event(op, "call", "rejected", "DataError", records, 0, tag, 0)
            /\ UNCHANGED ops
       ELSE IF bad > 1
       THEN /\ ops' = Append(ops,
                  [NewOp(op, {store}, "readwrite", "request", records, 0, tag)
                   EXCEPT !.n = bad - 1, !.promise = "rejected", !.hooked = FALSE])
            /\ ev' = Event(op, "call", "rejected", "DataError", records, 0, tag, 0)
       ELSE /\ ops' = Append(ops,
                  [NewOp(op, {store}, "readwrite", "request", records, 0, tag)
                   EXCEPT !.n = Len(records)])
            /\ ev' = Event(op, "call", "pending", "none", records, 0, tag, 0)
    /\ UNCHANGED <<db, connections, disk>>
    /\ Log

\* An onsuccess that resolves once every put has been counted.
BulkRequestResolvesEarly(i, ok) ==
    LET o == ops[i]
        settled == IF o.d + 1 = o.n /\ o.promise = "pending" THEN "resolved" ELSE o.promise
    IN
    /\ o.op \in Bulks /\ o.pc = "request" /\ CanRun(i)
    /\ IF ok
       THEN /\ ops' = [ops EXCEPT ![i] =
                  [Started(o, StorePut(View(o), StoreOf(o), o.arg[o.d + 1]))
                   EXCEPT !.d = o.d + 1,
                          !.promise = settled,
                          !.pc = IF o.d + 1 = o.n THEN "complete" ELSE "request"]]
            /\ ev' = EventOf(o, "success", settled, "none")
       ELSE /\ ops' = RemoveAt(ops, i)
            /\ ev' = EventOf(o, "abort", "rejected",
                             IF o.promise = "rejected" THEN "DataError" ELSE "StorageError")
    /\ UNCHANGED <<db, connections, disk>>
    /\ hist' = Record(hist, ev')

\* One put of the batch is served (o.n puts were placed, o.d are done):
\* request.onsuccess counts it; request.onerror aborts the transaction and
\* rejects with the request's error.
BulkRequest(i, ok) ==
    LET o == ops[i] IN
    /\ o.op \in Bulks /\ o.pc = "request" /\ CanRun(i)
    /\ IF ok
       THEN /\ ops' = [ops EXCEPT ![i] =
                  [Started(o, StorePut(View(o), StoreOf(o), o.arg[o.d + 1]))
                   EXCEPT !.d = o.d + 1,
                          !.pc = IF o.d + 1 = o.n THEN "complete" ELSE "request"]]
            /\ ev' = EventOf(o, "success", o.promise, "none")
       ELSE /\ ops' = RemoveAt(ops, i)
            /\ ev' = EventOf(o, "abort", "rejected",
                             IF o.promise = "rejected" THEN "DataError" ELSE "StorageError")
    /\ UNCHANGED <<db, connections, disk>>
    /\ Log

\* tx.oncomplete = () => resolve(), when forEach got as far as setting it.
BulkComplete(i, ok) ==
    LET o == ops[i]
        settled == IF o.hooked /\ o.promise = "pending" THEN "resolved" ELSE o.promise
    IN
    /\ o.op \in Bulks /\ o.pc = "complete"
    /\ ops' = RemoveAt(ops, i)
    /\ IF ok
       THEN /\ CommitWrites(o)
            /\ ev' = EventOf(o, "complete", settled, IF settled = "rejected"
                                                      THEN "DataError" ELSE "none")
       ELSE /\ ev' = EventOf(o, "abort", o.promise, "commit failed")
            /\ UNCHANGED <<rows, keyGen>>
    /\ UNCHANGED <<db, connections, version, objectStoreNames>>
    /\ Log

\* ------------------------------------------------------------ clearAllData
\* A list that forgets the last store.
storeNamesShort == <<STORE_FAMILIES, STORE_CARS, STORE_SAVED_STATES>>

\* const storeNames = [STORE_FAMILIES, STORE_CARS, STORE_SAVED_STATES, STORE_SAVED_PARKING]
storeNames == <<STORE_FAMILIES, STORE_CARS, STORE_SAVED_STATES, STORE_SAVED_PARKING>>

totalStores == Len(storeNames)

\* clearAllData(): one read-write transaction over the four stores and one
\* clear request per store, all placed by the call.
clearAllData(tag) ==
    /\ IF db = Undefined
       THEN /\ ev' = Event("clearAllData", "call", "rejected", "DB not open", 0, 0, tag, 0)
            /\ UNCHANGED ops
       ELSE /\ ops' = Append(ops, NewOp("clearAllData", StoreNames, "readwrite", "request",
                                        0, 0, tag))
            /\ ev' = Event("clearAllData", "call", "pending", "none", 0, 0, tag, 0)
    /\ UNCHANGED <<db, connections, disk>>
    /\ Log

\* A handler that rejects without aborting and keeps the error from
\* aborting the transaction: the clears done so far are committed.
ClearAllRequestKept(i, ok) ==
    LET o == ops[i] IN
    /\ o.op = "clearAllData" /\ o.pc = "request" /\ CanRun(i)
    /\ IF ok
       THEN /\ ops' = [ops EXCEPT ![i] =
                  [Started(o, StoreClear(View(o), storeNames[o.n + 1]))
                   EXCEPT !.n = o.n + 1,
                          !.pc = IF o.n + 1 = totalStores THEN "complete" ELSE "request"]]
            /\ ev' = EventOf(o, "success", "pending", "none")
            /\ UNCHANGED <<db, connections, disk>>
       ELSE /\ ops' = RemoveAt(ops, i)
            /\ ev' = Event(o.op, "abort", "rejected", "StorageError", o.arg, 0, o.tag, o.n)
            /\ CommitWrites(o)
            /\ UNCHANGED <<db, connections, version, objectStoreNames>>
    /\ hist' = Record(hist, ev')

\* The next clear is served: request.onsuccess counts it (clearCount++);
\* request.onerror aborts the transaction and rejects with the request's
\* error.
ClearAllRequest(i, ok) ==
    LET o == ops[i] IN
    /\ o.op = "clearAllData" /\ o.pc = "request" /\ CanRun(i)
    /\ IF ok
       THEN /\ ops' = [ops EXCEPT ![i] =
                  [Started(o, StoreClear(View(o), storeNames[o.n + 1]))
                   EXCEPT !.n = o.n + 1,
                          !.pc = IF o.n + 1 = totalStores THEN "complete" ELSE "request"]]
            /\ ev' = EventOf(o, "success", "pending", "none")
       ELSE /\ ops' = RemoveAt(ops, i)
            /\ ev' = Event(o.op, "abort", "rejected", "StorageError", o.arg, 0, o.tag, o.n)
    /\ UNCHANGED <<db, connections, disk>>
    /\ Log

\* tx.oncomplete = () => resolve(); a failed commit fires only `abort`.
ClearAllComplete(i, ok) ==
    LET o == ops[i] IN
    /\ o.op = "clearAllData" /\ o.pc = "complete"
    /\ ops' = RemoveAt(ops, i)
    /\ IF ok
       THEN /\ CommitWrites(o)
            /\ ev' = EventOf(o, "complete", "resolved", "none")
       ELSE /\ ev' = EventOf(o, "abort", "pending", "commit failed")
            /\ UNCHANGED <<rows, keyGen>>
    /\ UNCHANGED <<db, connections, version, objectStoreNames>>
    /\ Log

\* ------------------------------------------------------------ aliases
\* export const updateFamily = addFamily; export const updateCar = addCar;
addFamily(family, tag) == SimpleCall("addFamily", family, tag)

updateFamily(family, tag) == addFamily(family, tag)

addCar(car, tag) == SimpleCall("addCar", car, tag)

updateCar(car, tag) == addCar(car, tag)

\* ------------------------------------------------------------ engine steps
OpenIdle == \A i \in 1..Len(ops) : ops[i].op # "openDB"

OpenSteps ==
    \/ \E i \in 1..Len(ops), ok \in BOOLEAN : OpenRequest(i, ok)
    \/ \E i \in 1..Len(ops), ok \in BOOLEAN : OpenUpgradeEnd(i, ok)
    \/ \E i \in 1..Len(ops) : OpenSuccess(i)

AppendSteps ==
    \/ \E i \in 1..Len(ops), ok \in BOOLEAN : AppendPut(i, ok)
    \/ \E i \in 1..Len(ops), ok \in BOOLEAN : AppendCount(i, ok)
    \/ \E i \in 1..Len(ops), ok \in BOOLEAN : AppendCursor(i, ok)
    \/ \E i \in 1..Len(ops), ok \in BOOLEAN : AppendComplete(i, ok)

SimpleSteps ==
    \/ \E i \in 1..Len(ops), ok \in BOOLEAN : SimpleRequest(i, ok)
    \/ \E i \in 1..Len(ops), ok \in BOOLEAN : SimpleComplete(i, ok)

BulkSteps ==
    \/ \E i \in 1..Len(ops), ok \in BOOLEAN : BulkRequest(i, ok)
    \/ \E i \in 1..Len(ops), ok \in BOOLEAN : BulkComplete(i, ok)

ClearAllSteps ==
    \/ \E i \in 1..Len(ops), ok \in BOOLEAN : ClearAllRequest(i, ok)
    \/ \E i \in 1..Len(ops), ok \in BOOLEAN : ClearAllComplete(i, ok)

\* ------------------------------------------------------------ histories
\* A record as the callers of addSavedState and addSavedParking build it:
\* { name, timestamp, ... } and no id.
LogRecord(timestamp, name) == [timestamp |-> timestamp, name |-> name]

\* Appends on `store` that were issued and hold no key yet.
Waiting(store) ==
    Cardinality({i \in 1..Len(ops) : ops[i].scope = {store} /\ ops[i].pc = "put"})

\* Keys both histories have handed out or are about to.
KeysUsed == keyGen[STORE_SAVED_STATES] + keyGen[STORE_SAVED_PARKING] - 2
            + Waiting(STORE_SAVED_STATES) + Waiting(STORE_SAVED_PARKING)

\* One caller that awaits each call: it opens the store, then appends to
\* either history, with any timestamp and any capacity each time.
LogOpen == ops = <<>> /\ db = Undefined /\ openDB(<<>>, <<>>, 0)

LogAddSavedState ==
    /\ ops = <<>> /\ db # Undefined /\ KeysUsed < MaxKey
    /\ \E t \in 1..MaxTimestamp, limit \in 0..MaxLimit :
          addSavedState(LogRecord(t, "x"), limit, 0)

LogAddSavedParking ==
    /\ ops = <<>> /\ db # Undefined /\ KeysUsed < MaxKey
    /\ \E t \in 1..MaxTimestamp, limit \in 0..MaxLimit :
          addSavedParking(LogRecord(t, "x"), limit, 0)

NextLog ==
    \/ LogOpen
    \/ LogAddSavedState
    \/ LogAddSavedParking
    \/ OpenSteps
    \/ AppendSteps

SpecLog == Init /\ [][NextLog]_vars

\* A later session: the module is loaded again over the store an earlier
\* session left at DB_VERSION, with a history of n rows under keys 1..n
\* whose timestamps never decrease (the clock of the sessions that wrote
\* them) in one of the two history stores.
StoredHistories ==
    UNION {{h \in [1..n -> 1..StoredStamp] : \A i \in 1..(n - 1) : h[i] <= h[i + 1]} :
           n \in 0..StoredRows}

StoredTable(h) == [k \in DOMAIN h |-> [id |-> k, timestamp |-> h[k], name |-> "x"]]

InitStored ==
    /\ db = Undefined
    /\ connections = 0
    /\ version = DB_VERSION
    /\ objectStoreNames = StoreNames
    /\ \E h \in StoredHistories, store \in {STORE_SAVED_STATES, STORE_SAVED_PARKING} :
          /\ rows = [s \in StoreNames |-> IF s = store THEN StoredTable(h) ELSE EmptyTable]
          /\ keyGen = [s \in StoreNames |-> IF s = store THEN Len(h) + 1 ELSE 1]
    /\ ops = <<>>
    /\ hist = <<>>
    /\ ev = [op |-> "load", step |-> "init", promise |-> "none", error |-> "none",
             arg |-> 0, limit |-> 0, tag |-> 0, result |-> 0,
             pre |-> rows, preGen |-> keyGen, preDb |-> Undefined,
             preOpened |-> 0, preOps |-> 0,
             preVersion |-> DB_VERSION, preNames |-> StoreNames]

\* The session opens the store and appends one record, of any timestamp
\* and with any capacity, to either history.
RetentionOpen == ops = <<>> /\ db = Undefined /\ openDB(<<>>, <<>>, 0)

RetentionAddSavedState ==
    /\ db # Undefined /\ hist = <<>>
    /\ \E t \in 1..StoredStamp, limit \in 0..StoredRows :
          addSavedState(LogRecord(t, "x"), limit, 1)

RetentionAddSavedParking ==
    /\ db # Undefined /\ hist = <<>>
    /\ \E t \in 1..StoredStamp, limit \in 0..StoredRows :
          addSavedParking(LogRecord(t, "x"), limit, 1)

NextRetention ==
    \/ RetentionOpen
    \/ RetentionAddSavedState
    \/ RetentionAddSavedParking
    \/ \E i \in 1..Len(ops), ok \in BOOLEAN : OpenRequest(i, ok)
    \/ AppendSteps

SpecRetention == InitStored /\ [][NextRetention]_vars


\* A caller that fires appends without awaiting them (fire-and-forget):
\* up to ConcCalls calls, numbered in issue order, any of them in flight.
ConcOpen == ops = <<>> /\ db = Undefined /\ openDB(<<>>, <<>>, 0)

ConcAddSavedState ==
    /\ db # Undefined /\ Len(hist) < ConcCalls
    /\ \E t \in 1..ConcStamp, limit \in 0..ConcLimit :
          addSavedState(LogRecord(t, "x"), limit, Len(hist) + 1)

ConcAddSavedParking ==
    /\ db # Undefined /\ Len(hist) < ConcCalls
    /\ \E t \in 1..ConcStamp, limit \in 0..ConcLimit :
          addSavedParking(LogRecord(t, "x"), limit, Len(hist) + 1)

NextConc ==
    \/ ConcOpen
    \/ ConcAddSavedState
    \/ ConcAddSavedParking
    \/ OpenSteps
    \/ AppendSteps

SpecConc == Init /\ [][NextConc]_vars


\* ------------------------------------------------------------ keyed stores
FamilyNames == {"A", "B"}

CarIds == {"c1"}

\* Family and car records: the key and fields the store does not look at.
FamilyValues ==
    {[familyName |-> n, order |-> 0] : n \in FamilyNames}
        \cup {[familyName |-> n, memo |-> "m"] : n \in FamilyNames}

CarValues ==
    {[id |-> c, seats |-> 1] : c \in CarIds} \cup {[id |-> c] : c \in CarIds}

\* Records without the key of their store.
NoNameFamily == [order |-> 0]

NoIdCar == [seats |-> 1]

\* One caller that awaits each call and makes up to MaxKvCalls of them,
\* numbered in issue order: puts (under both names of the function),
\* deletes and clears on the two keyed stores.
KvOpen == ops = <<>> /\ db = Undefined /\ openDB(<<>>, <<>>, 0)

KvReady == ops = <<>> /\ db # Undefined /\ Len(hist) < MaxKvCalls

KvAddFamily == KvReady /\ \E v \in FamilyValues : addFamily(v, Len(hist) + 1)

KvUpdateFamily == KvReady /\ \E v \in FamilyValues : updateFamily(v, Len(hist) + 1)

KvAddCar == KvReady /\ \E v \in CarValues : addCar(v, Len(hist) + 1)

KvUpdateCar == KvReady /\ \E v \in CarValues : updateCar(v, Len(hist) + 1)

KvDeleteFamily ==
    KvReady /\ \E n \in FamilyNames : SimpleCall("deleteFamily", n, Len(hist) + 1)

KvDeleteCar == KvReady /\ \E c \in CarIds : SimpleCall("deleteCar", c, Len(hist) + 1)

KvClearFamilies == KvReady /\ SimpleCall("clearFamilies", 0, Len(hist) + 1)

KvClearCars == KvReady /\ SimpleCall("clearCars", 0, Len(hist) + 1)

NextKv ==
    \/ KvOpen
    \/ KvAddFamily
    \/ KvUpdateFamily
    \/ KvAddCar
    \/ KvUpdateCar
    \/ KvDeleteFamily
    \/ KvDeleteCar
    \/ KvClearFamilies
    \/ KvClearCars
    \/ OpenSteps
    \/ SimpleSteps

SpecKv == Init /\ [][NextKv]_vars

\* Batches of up to MaxBatch records, valid ones and ones without a key.
RECURSIVE Batches(_, _)
Batches(values, n) ==
    IF n = 0 THEN {<<>>}
    ELSE Batches(values, n - 1) \cup
         {Append(b, v) : b \in {x \in Batches(values, n - 1) : Len(x) = n - 1}, v \in values}

FamilyBatches ==
    Batches({[familyName |-> n, order |-> 0] : n \in FamilyNames} \cup {NoNameFamily},
            MaxBatch)

CarBatches == Batches({[id |-> "c1"], NoIdCar}, MaxBatch)

\* One caller that awaits each call: bulk puts on the two keyed stores.
BulkOpen == ops = <<>> /\ db = Undefined /\ openDB(<<>>, <<>>, 0)

BulkAddFamilies ==
    /\ ops = <<>> /\ db # Undefined
    /\ \E b \in FamilyBatches : BulkCall("bulkAddFamilies", b, 0)

BulkAddCars ==
    /\ ops = <<>> /\ db # Undefined
    /\ \E b \in CarBatches : BulkCall("bulkAddCars", b, 0)

BulkClearFamilies == ops = <<>> /\ db # Undefined /\ SimpleCall("clearFamilies", 0, 0)

NextBulk ==
    \/ BulkOpen
    \/ BulkAddFamilies
    \/ BulkAddCars
    \/ BulkClearFamilies
    \/ OpenSteps
    \/ BulkSteps
    \/ SimpleSteps

SpecBulk == Init /\ [][NextBulk]_vars

\* ------------------------------------------------------------ reset runs
\* One caller that awaits each call: it fills the four stores and resets.
ResetOpen == ops = <<>> /\ db = Undefined /\ openDB(<<>>, <<>>, 0)

ResetReady == ops = <<>> /\ db # Undefined

ResetAddFamily == ResetReady /\ addFamily([familyName |-> "A", order |-> 0], 0)

ResetAddCar == ResetReady /\ addCar([id |-> "c1"], 0)

ResetAddSavedState ==
    /\ ResetReady /\ keyGen[STORE_SAVED_STATES] <= ResetKeys
    /\ addSavedState(LogRecord(1, "x"), 1, 0)

ResetAddSavedParking ==
    /\ ResetReady /\ keyGen[STORE_SAVED_PARKING] <= ResetKeys
    /\ addSavedParking(LogRecord(1, "x"), 1, 0)

ResetClearAllData == ResetReady /\ clearAllData(0)

NextReset ==
    \/ ResetOpen
    \/ ResetAddFamily
    \/ ResetAddCar
    \/ ResetAddSavedState
    \/ ResetAddSavedParking
    \/ ResetClearAllData
    \/ OpenSteps
    \/ SimpleSteps
    \/ AppendSteps
    \/ ClearAllSteps

SpecReset == Init /\ [][NextReset]_vars


\* ------------------------------------------------------------ open runs
\* Seed lists a caller passes to openDB.
SeedFamilies == {<<>>, <<[familyName |-> "A"], [familyName |-> "B", order |-> 5]>>}

SeedCars == {<<>>, <<[id |-> "c1"]>>}

\* The argument each one-request function is called with.
ArgFor(op) ==
    IF op = "addFamily" THEN [familyName |-> "A", order |-> 0]
    ELSE IF op = "addCar" THEN [id |-> "c1"]
    ELSE IF op \in {"getFamily", "deleteFamily"} THEN "A"
    ELSE IF op \in {"getCar", "deleteCar"} THEN "c1"
    ELSE IF op \in GetOnes \cup Deletes THEN 1
    ELSE 0

OpensInFlight == Cardinality({i \in 1..Len(ops) : ops[i].op = "openDB"})

\* A caller that may call anything at any time until the store is open
\* (openDB up to OpenRaces times without waiting), and then awaits each call.
OpenCall ==
    /\ OpensInFlight < OpenRaces
    /\ \E f \in SeedFamilies, c \in SeedCars : openDB(f, c, 0)

MayCall == db = Undefined \/ ops = <<>>

OpenSimpleCall == MayCall /\ \E op \in Simple : SimpleCall(op, ArgFor(op), 0)

OpenBulkCall ==
    /\ MayCall
    /\ \/ \E b \in {<<>>, <<[familyName |-> "B", order |-> 0]>>} :
              BulkCall("bulkAddFamilies", b, 0)
       \/ \E b \in {<<>>, <<[id |-> "c2"]>>} : BulkCall("bulkAddCars", b, 0)

OpenAddSavedState ==
    /\ MayCall /\ keyGen[STORE_SAVED_STATES] <= ResetKeys
    /\ addSavedState(LogRecord(1, "x"), 1, 0)

OpenAddSavedParking ==
    /\ MayCall /\ keyGen[STORE_SAVED_PARKING] <= ResetKeys
    /\ addSavedParking(LogRecord(1, "x"), 1, 0)

OpenClearAllData == MayCall /\ clearAllData(0)

NextOpen ==
    \/ OpenCall
    \/ OpenSimpleCall
    \/ OpenBulkCall
    \/ OpenAddSavedState
    \/ OpenAddSavedParking
    \/ OpenClearAllData
    \/ OpenSteps
    \/ SimpleSteps
    \/ BulkSteps
    \/ AppendSteps
    \/ ClearAllSteps

SpecOpen == Init /\ [][NextOpen]_vars


\* ------------------------------------------------------------ migration runs
\* Rows an earlier session left in the keyed stores.
KeptFamilies == {EmptyTable, [k \in {"A"} |-> [familyName |-> "A", order |-> 7]]}

KeptCars == {EmptyTable, [k \in {"c1"} |-> [id |-> "c1"]]}

\* The module is loaded over a store that does not exist yet (version 0),
\* or that the v1 code left (the two keyed stores), or that is at DB_VERSION.
InitDisk ==
    /\ db = Undefined
    /\ connections = 0
    /\ version \in 0..DB_VERSION
    /\ objectStoreNames = IF version = 0 THEN {}
                          ELSE IF version = 1 THEN {STORE_FAMILIES, STORE_CARS}
                          ELSE StoreNames
    /\ \E f \in KeptFamilies, c \in KeptCars :
          rows = [s \in StoreNames |->
                     IF version = 0 THEN EmptyTable
                     ELSE IF s = STORE_FAMILIES THEN f
                     ELSE IF s = STORE_CARS THEN c
                     ELSE EmptyTable]
    /\ keyGen = [s \in StoreNames |-> 1]
    /\ ops = <<>>
    /\ hist = <<>>
    /\ ev = [op |-> "load", step |-> "init", promise |-> "none", error |-> "none",
             arg |-> 0, limit |-> 0, tag |-> 0, result |-> 0,
             pre |-> rows, preGen |-> keyGen, preDb |-> Undefined,
             preOpened |-> 0, preOps |-> 0,
             preVersion |-> version, preNames |-> objectStoreNames]

\* Seed lists: none, one family without and one with an order, and one
\* whose second family supplies order 0.
MigrateSeedFamilies ==
    {<<>>,
     <<[familyName |-> "A"], [familyName |-> "B", order |-> 5]>>,
     <<[familyName |-> "B", memo |-> "m"], [familyName |-> "A", order |-> 0]>>}

\* The process is restarted: the module state is new, the store is kept, and
\* what was in flight is lost.
Restart ==
    /\ db # Undefined \/ ops # <<>>
    /\ db' = Undefined
    /\ connections' = 0
    /\ ops' = <<>>
    /\ ev' = Event("load", "init", "none", "none", 0, 0, 0, 0)
    /\ UNCHANGED <<disk, hist>>

\* A caller that opens up to MaxOpens times (up to OpenRaces without
\* waiting), empties the keyed stores, and restarts.
MigrateOpen ==
    /\ OpensInFlight < OpenRaces /\ Len(hist) < MaxOpens
    /\ \E f \in MigrateSeedFamilies, c \in SeedCars : openDB(f, c, Len(hist) + 1)

MigrateDeleteFamily == MayCall /\ SimpleCall("deleteFamily", "A", 0)

MigrateDeleteCar == MayCall /\ SimpleCall("deleteCar", "c1", 0)

MigrateClearAllData == MayCall /\ clearAllData(0)

NextMigrate ==
    \/ MigrateOpen
    \/ MigrateDeleteFamily
    \/ MigrateDeleteCar
    \/ MigrateClearAllData
    \/ Restart
    \/ OpenSteps
    \/ SimpleSteps
    \/ ClearAllSteps

SpecMigrate == InitDisk /\ [][NextMigrate]_vars


\* ------------------------------------------------------------ stored data
\* Histories of any shape: the rows that appends with caller-chosen
\* timestamps and deletes by key can leave under keys 1..HistoryKeys.
HistoryTables == UNION {[keys -> 1..HistoryStamp] : keys \in SUBSET (1..HistoryKeys)}

HistoryTable(h) ==
    [k \in DOMAIN h |->
        [id |-> k, timestamp |-> h[k], name |-> IF k % 2 = 1 THEN "x" ELSE "y"]]

\* A later session over a store at DB_VERSION: two families, two cars, and
\* such a history in one of the two history stores.
InitHistory ==
    /\ db = Undefined
    /\ connections = 0
    /\ version = DB_VERSION
    /\ objectStoreNames = StoreNames
    /\ \E h \in HistoryTables, store \in {STORE_SAVED_STATES, STORE_SAVED_PARKING} :
          /\ rows = [s \in StoreNames |->
                        IF s = store THEN HistoryTable(h)
                        ELSE IF s = STORE_FAMILIES
                        THEN [k \in FamilyNames |-> [familyName |-> k, order |-> 0]]
                        ELSE IF s = STORE_CARS
                        THEN [k \in {"c1", "c2"} |-> [id |-> k]]
                        ELSE EmptyTable]
          /\ keyGen = [s \in StoreNames |-> IF s = store THEN HistoryKeys + 1 ELSE 1]
    /\ ops = <<>>
    /\ hist = <<>>
    /\ ev = [op |-> "load", step |-> "init", promise |-> "none", error |-> "none",
             arg |-> 0, limit |-> 0, tag |-> 0, result |-> 0,
             pre |-> rows, preGen |-> keyGen, preDb |-> Undefined,
             preOpened |-> 0, preOps |-> 0,
             preVersion |-> DB_VERSION, preNames |-> StoreNames]

\* The session opens the store and makes one call: a sorted read, a delete
\* of a key (present or not) on any of the four stores, or an append of a
\* record of any timestamp and name, with or without an id of its own.
NextHistory ==
    \/ ops = <<>> /\ db = Undefined /\ openDB(<<>>, <<>>, 0)
    \/ db # Undefined /\ hist = <<>> /\ SimpleCall("getAllSavedStates", 0, 1)
    \/ db # Undefined /\ hist = <<>> /\ SimpleCall("getAllSavedParking", 0, 1)
    \/ /\ db # Undefined /\ hist = <<>>
       /\ \E k \in {"A", "B", "C"} : SimpleCall("deleteFamily", k, 1)
    \/ /\ db # Undefined /\ hist = <<>>
       /\ \E k \in {"c1", "c2", "c3"} : SimpleCall("deleteCar", k, 1)
    \/ /\ db # Undefined /\ hist = <<>>
       /\ \E k \in 1..(HistoryKeys + 1) : SimpleCall("deleteSavedState", k, 1)
    \/ /\ db # Undefined /\ hist = <<>>
       /\ \E k \in 1..(HistoryKeys + 1) : SimpleCall("deleteSavedParking", k, 1)
    \/ /\ db # Undefined /\ hist = <<>>
       /\ \E t \in 1..HistoryStamp, n \in {"x", "y"}, limit \in 0..(HistoryKeys + 1) :
             \/ addSavedState(LogRecord(t, n), limit, 1)
             \/ \E id \in 1..HistoryKeys :
                   addSavedState([id |-> id, timestamp |-> t, name |-> n], limit, 1)
    \/ /\ db # Undefined /\ hist = <<>>
       /\ \E t \in 1..HistoryStamp, n \in {"x", "y"}, limit \in 0..(HistoryKeys + 1) :
             \/ addSavedParking(LogRecord(t, n), limit, 1)
             \/ \E id \in 1..HistoryKeys :
                   addSavedParking([id |-> id, timestamp |-> t, name |-> n], limit, 1)
    \/ \E i \in 1..Len(ops), ok \in BOOLEAN : OpenRequest(i, ok)
    \/ SimpleSteps
    \/ AppendSteps

SpecHistory == InitHistory /\ [][NextHistory]_vars

\* ------------------------------------------------------------ claims
Appends == {"addSavedState", "addSavedParking"}

RowsOf(table) == {table[k] : k \in DOMAIN table}

Count(table) == Cardinality(DOMAIN table)

\* C1: once an append has succeeded (its promise resolved), the table holds
\* at most as many rows as the capacity passed to that call, whatever the
\* table held before and whatever capacities earlier calls passed.
C1_RowCountWithinCapacity ==
    (ev.op \in Appends /\ ev.promise = "resolved")
        => Count(rows[StoreFor(ev.op)]) <= ev.limit

\* An append succeeded on a table that held more rows than its capacity (an
\* earlier call passed a larger one), so it pruned more than one row.
C1_Witness ==
    /\ ev.op \in Appends /\ ev.promise = "resolved"
    /\ ev.limit >= 1
    /\ Count(ev.pre[StoreFor(ev.op)]) > ev.limit
    /\ Count(rows[StoreFor(ev.op)]) = ev.limit

\* q is more recent than r: a larger timestamp or, among equal timestamps,
\* the larger surrogate key (the later insertion).
MoreRecent(q, r) ==
    q.timestamp > r.timestamp \/ (q.timestamp = r.timestamp /\ q.id > r.id)

\* The rows present before the call plus the new record under its new key.
BeforePlusNew(e) ==
    RowsOf(e.pre[StoreFor(e.op)]) \cup
        {[id |-> e.preGen[StoreFor(e.op)], timestamp |-> e.arg.timestamp,
          name |-> e.arg.name]}

\* The `capacity` most recent of a set of rows (all of them when fewer).
MostRecent(all, capacity) ==
    {r \in all : Cardinality({q \in all : MoreRecent(q, r)}) < capacity}

\* C2: after each append the surviving rows are exactly the `capacity` most
\* recent (by timestamp, then by surrogate key) of the rows present before
\* the call plus the new record, and the rows removed are exactly the
\* count - capacity oldest of them.
C2_SurvivorsAreMostRecent ==
    (ev.op \in Appends /\ ev.step = "complete")
        => LET all == BeforePlusNew(ev)
               kept == RowsOf(rows[StoreFor(ev.op)])
           IN /\ kept = MostRecent(all, ev.limit)
              /\ Cardinality(all \ kept) = Max(0, Cardinality(all) - ev.limit)
              /\ \A gone \in all \ kept, r \in kept : MoreRecent(r, gone)

\* The scenario: records stamped 1..6 appended with capacity 5; the sixth
\* append leaves exactly the records stamped 2..6.
C2_Witness ==
    /\ ev.op = "addSavedState" /\ ev.step = "complete"
    /\ ev.limit = 5 /\ ev.arg.timestamp = 6
    /\ {r.timestamp : r \in RowsOf(ev.pre[STORE_SAVED_STATES])} = 1..5
    /\ Count(ev.pre[STORE_SAVED_STATES]) = 5
    /\ {r.timestamp : r \in RowsOf(rows[STORE_SAVED_STATES])} = 2..6
    /\ Count(rows[STORE_SAVED_STATES]) = 5

\* C3: an append is atomic.  Until its transaction completes the committed
\* tables and key generators are as before the call, and they stay so when
\* a request (the insert, the count, a cursor step or its delete) or the
\* commit fails; when it completes, the insert and the whole prune appear
\* together: one key was handed out and the table holds the rows it held
\* plus one, cut to the capacity.
C3_AppendAtomic ==
    ev.op \in Appends
        => IF ev.step = "complete"
           THEN /\ keyGen[StoreFor(ev.op)] = ev.preGen[StoreFor(ev.op)] + 1
                /\ Count(rows[StoreFor(ev.op)]) =
                      (IF Count(ev.pre[StoreFor(ev.op)]) + 1 > ev.limit
                       THEN ev.limit ELSE Count(ev.pre[StoreFor(ev.op)]) + 1)
                /\ \A s \in StoreNames \ {StoreFor(ev.op)} :
                      rows[s] = ev.pre[s] /\ keyGen[s] = ev.preGen[s]
           ELSE rows = ev.pre /\ keyGen = ev.preGen

\* An append failed after its transaction had inserted the record and
\* deleted a row, and the table is as before the call.
C3_Witness ==
    /\ ev.op \in Appends /\ ev.step = "abort" /\ ev.promise = "rejected"
    /\ ev.result >= 1
    /\ rows = ev.pre
    /\ Count(rows[StoreFor(ev.op)]) >= 1

\* Running one append alone on a table: insert under the next key, keep the
\* `capacity` most recent rows.
AppendAlone(t, data, capacity) ==
    [rows |-> MostRecent(t.rows \cup {[id |-> t.gen, timestamp |-> data.timestamp,
                                       name |-> data.name]}, capacity),
     gen |-> t.gen + 1]

\* The committed appends on `store` among the first n calls, run one after
\* another in issue order from the empty table.
RECURSIVE OneAfterAnother(_, _)
OneAfterAnother(store, n) ==
    IF n = 0 THEN [rows |-> {}, gen |-> 1]
    ELSE IF hist[n].op = AppendName(store) /\ hist[n].status = "committed"
    THEN AppendAlone(OneAfterAnother(store, n - 1), hist[n].arg, hist[n].limit)
    ELSE OneAfterAnother(store, n - 1)

\* C4: appends in flight at once on the same log never interleave: only the
\* earliest issued has touched the store, they commit in issue order, the
\* table is what running the committed appends one after another in issue
\* order gives, and after each commit the row count is within that call's
\* capacity.
C4_AppendsSerialized ==
    /\ \A i, j \in 1..Len(ops) :
          (i < j /\ ops[i].scope = ops[j].scope) => ~ops[j].started
    /\ \A m, n \in 1..Len(hist) :
          (m < n /\ hist[m].op = hist[n].op /\ hist[n].status = "committed")
              => hist[m].status # "pending"
    /\ \A store \in {STORE_SAVED_STATES, STORE_SAVED_PARKING} :
          LET serial == OneAfterAnother(store, Len(hist))
          IN RowsOf(rows[store]) = serial.rows /\ keyGen[store] = serial.gen
    /\ (ev.op \in Appends /\ ev.step = "complete")
          => Count(rows[StoreFor(ev.op)]) <= ev.limit

\* Two appends were in flight on the same log at once (the second was issued
\* before the first had touched the store), both have committed, and the
\* second pruned the row of the first.
C4_Witness ==
    /\ Len(hist) = 2
    /\ \A n \in 1..2 : hist[n].op = "addSavedState" /\ hist[n].status = "committed"
    /\ ev.step = "complete" /\ ev.tag = 2
    /\ ev.limit = 1
    /\ Count(ev.pre[STORE_SAVED_STATES]) = 1
    /\ ev.preGen[STORE_SAVED_STATES] = 2
    /\ DOMAIN rows[STORE_SAVED_STATES] = {2}

\* The table a put, a delete or a clear of the keyed store leaves.
Upsert(table, key, value) ==
    [k \in DOMAIN table \cup {key} |-> IF k = key THEN value ELSE table[k]]

Without(table, key) == [k \in DOMAIN table \ {key} |-> table[k]]

\* The keyed table after the committed ones of the first n calls, applied
\* in issue order to the empty table.
RECURSIVE LatestPuts(_, _)
LatestPuts(store, n) ==
    IF n = 0 THEN EmptyTable
    ELSE LET before == LatestPuts(store, n - 1)
             call == hist[n]
         IN IF StoreFor(call.op) # store \/ call.status # "committed" THEN before
            ELSE IF call.op \in Puts THEN Upsert(before, call.arg[KeyPath(store)], call.arg)
            ELSE IF call.op \in Deletes THEN Without(before, call.arg)
            ELSE EmptyTable

\* C5: after every sequence of puts (with deletes and clears between them)
\* each keyed table holds exactly one row per key put and not since deleted,
\* stored under its own key, and the row is the whole record of the most
\* recent put for that key, with no field of the row it replaced.
C5_OneRowPerKeyLatestPut ==
    \A store \in {STORE_FAMILIES, STORE_CARS} :
        /\ rows[store] = LatestPuts(store, Len(hist))
        /\ \A k \in DOMAIN rows[store] : rows[store][k][KeyPath(store)] = k

\* Family A was put with an order, then put again without one, and the row
\* is the second record: it has no order.
C5_Witness ==
    /\ Len(hist) >= 2
    /\ hist[1].op = "addFamily" /\ hist[1].status = "committed"
    /\ hist[2].op = "addFamily" /\ hist[2].status = "committed"
    /\ hist[1].arg = [familyName |-> "A", order |-> 0]
    /\ hist[2].arg = [familyName |-> "A", memo |-> "m"]
    /\ Len(hist) = 2
    /\ rows[STORE_FAMILIES] = [k \in {"A"} |-> [familyName |-> "A", memo |-> "m"]]

\* C6 (as claimed): whenever a bulk put is rejected, because a put threw
\* when it was issued or because its request failed, the tables are as they
\* were before the call.
C6_BulkAllOrNothing ==
    (ev.op \in Bulks /\ ev.promise = "rejected") => rows = ev.pre

\* C7: when clearAllData has succeeded, the four tables are empty, whatever
\* they held before (nothing as well as rows).
C7_ClearAllEmpties ==
    (ev.op = "clearAllData" /\ ev.promise = "resolved")
        => \A s \in StoreNames : rows[s] = EmptyTable

\* clearAllData succeeded on four tables that each held a row.
C7_Witness ==
    /\ ev.op = "clearAllData" /\ ev.promise = "resolved"
    /\ \A s \in StoreNames : ev.pre[s] # EmptyTable
    /\ \A s \in StoreNames : rows[s] = EmptyTable

\* C8: when a clear of clearAllData fails, the call is rejected with the
\* error of that request and the four tables are as before the call; at no
\* step of clearAllData do the committed tables show some stores cleared and
\* others not: they are as before until the transaction completes, and all
\* empty then.
C8_ClearAllAtomic ==
    ev.op = "clearAllData"
        => /\ (ev.step = "abort" /\ ev.error # "commit failed")
                 => ev.promise = "rejected" /\ ev.error = "StorageError"
           /\ IF ev.step = "complete"
              THEN \A s \in StoreNames : rows[s] = EmptyTable
              ELSE rows = ev.pre /\ keyGen = ev.preGen

\* The third clear failed after the transaction had cleared two stores that
\* held rows: the call is rejected and the rows are still there.
C8_Witness ==
    /\ ev.op = "clearAllData" /\ ev.step = "abort" /\ ev.error = "StorageError"
    /\ ev.result = 2
    /\ \A s \in StoreNames : rows[s] # EmptyTable

\* C9: a call of any operation other than openDB, made while no open has
\* succeeded, is rejected with 'DB not open', starts no transaction and
\* changes no table.
C9_RejectedBeforeOpen ==
    (ev.step = "call" /\ ev.op # "openDB" /\ ev.preOpened = 0)
        => /\ ev.promise = "rejected" /\ ev.error = "DB not open"
           /\ Len(ops) = ev.preOps
           /\ rows = ev.pre /\ keyGen = ev.preGen

\* A put was called while an open was in flight whose upgrade had already
\* committed the stores: it is rejected all the same.
C9_Witness ==
    /\ ev.step = "call" /\ ev.op = "addFamily" /\ ev.error = "DB not open"
    /\ version = DB_VERSION /\ db = Undefined
    /\ Len(ops) = 1 /\ ops[1].op = "openDB"

\* C10: an openDB called after an open has succeeded resolves at once with
\* the established handle; it issues no open request, so no migration step
\* runs and no seed row is written, whatever seed lists it is given.
C10_OpenIdempotent ==
    (ev.step = "call" /\ ev.op = "openDB" /\ ev.preOpened >= 1)
        => /\ ev.promise = "resolved"
           /\ ev.preDb # Undefined /\ ev.result = ev.preDb /\ db = ev.preDb
           /\ Len(ops) = ev.preOps /\ connections = ev.preOpened
           /\ version = DB_VERSION
           /\ rows = ev.pre /\ keyGen = ev.preGen

\* openDB was called with seed lists on an open store whose keyed tables are
\* empty: it resolved with the handle and the tables are still empty.
C10_Witness ==
    /\ ev.step = "call" /\ ev.op = "openDB" /\ ev.preOpened = 1
    /\ ev.promise = "resolved" /\ ev.result = 1
    /\ ev.arg.families # <<>> /\ ev.arg.cars # <<>>
    /\ rows[STORE_FAMILIES] = EmptyTable /\ rows[STORE_CARS] = EmptyTable
    /\ ops = <<>>

C12_SeedRowsStored ==
    (ev.op = "openDB" /\ ev.step = "upgraded" /\ ev.preVersion = 0)
        => LET fs == ev.arg.families
               cs == ev.arg.cars
           IN /\ DOMAIN rows[STORE_FAMILIES] = {fs[i].familyName : i \in DOMAIN fs}
              /\ \A i \in DOMAIN fs :
                    LET r == rows[STORE_FAMILIES][fs[i].familyName] IN
                    /\ DOMAIN r = DOMAIN fs[i] \cup {"order"}
                    /\ r.order = IF "order" \in DOMAIN fs[i] THEN fs[i].order ELSE i - 1
                    /\ \A f \in DOMAIN fs[i] \ {"order"} : r[f] = fs[i][f]
              /\ DOMAIN rows[STORE_CARS] = {cs[i].id : i \in DOMAIN cs}
              /\ \A i \in DOMAIN cs : rows[STORE_CARS][cs[i].id] = cs[i]

\* A fresh store was opened with seeds A (no order) and B (order 5) and a
\* seed car: A has order 0, B has order 5, the car is stored as given.
C12_Witness ==
    /\ ev.op = "openDB" /\ ev.step = "upgraded" /\ ev.preVersion = 0
    /\ ev.arg.families = <<[familyName |-> "A"], [familyName |-> "B", order |-> 5]>>
    /\ rows[STORE_FAMILIES] = [k \in {"A", "B"} |->
                                  [familyName |-> k, order |-> IF k = "A" THEN 0 ELSE 5]]
    /\ rows[STORE_CARS] = [k \in {"c1"} |-> [id |-> "c1"]]

\* C17: when the open request or its upgrade fails, openDB is rejected with
\* the open error and keeps nothing: no handle, and store names, version,
\* rows and key generators as before.  While no open has succeeded, every
\* other call is rejected with 'DB not open', and an openDB call issues a
\* new open request.
C17_FailedOpenKeepsNothing ==
    /\ (ev.op = "openDB" /\ ev.step = "error")
          => /\ ev.promise = "rejected" /\ ev.error = "open failed"
             /\ db = ev.preDb /\ connections = ev.preOpened
             /\ version = ev.preVersion /\ objectStoreNames = ev.preNames
             /\ rows = ev.pre /\ keyGen = ev.preGen
    /\ (ev.step = "call" /\ ev.preOpened = 0)
          => IF ev.op = "openDB"
             THEN /\ ev.promise = "pending"
                  /\ Len(ops) = ev.preOps + 1
                  /\ ops[Len(ops)].op = "openDB" /\ ops[Len(ops)].pc = "open"
             ELSE ev.promise = "rejected" /\ ev.error = "DB not open"

\* The first openDB, with seeds, on a fresh store was rejected and left no
\* store behind; the second openDB call has issued a new open request.
C17_Witness ==
    /\ Len(hist) = 2 /\ hist[1].promise = "rejected" /\ hist[1].arg.families # <<>>
    /\ ev.op = "openDB" /\ ev.step = "call" /\ ev.tag = 2 /\ ev.promise = "pending"
    /\ db = Undefined /\ version = 0 /\ objectStoreNames = {}
    /\ Len(ops) = 1

\* C19: the v1 step runs only from version 0 and the v2 step only from
\* versions 0 and 1, v1 before v2: an upgrade from version 0 creates the
\* four stores, an upgrade from version 1 adds the two history stores
\* and leaves the rows of families and cars as they were, a store at version
\* 2 gets no upgrade; after every successful open the four stores exist at
\* version 2.
C19_MigrationSteps ==
    ev.op = "openDB"
        => /\ ev.step \in {"upgradeneeded", "upgraded"} => ev.preVersion < DB_VERSION
           /\ ev.preVersion = DB_VERSION
                 => /\ version = DB_VERSION /\ objectStoreNames = ev.preNames
                    /\ rows = ev.pre /\ keyGen = ev.preGen
           /\ ev.step = "upgraded"
                 => /\ version = DB_VERSION /\ objectStoreNames = StoreNames
                    /\ rows[STORE_SAVED_STATES] = EmptyTable
                    /\ rows[STORE_SAVED_PARKING] = EmptyTable
                    /\ ev.preVersion = 0 => ev.preNames = {}
                    /\ ev.preVersion = 1
                          => /\ ev.preNames = {STORE_FAMILIES, STORE_CARS}
                             /\ rows[STORE_FAMILIES] = ev.pre[STORE_FAMILIES]
                             /\ rows[STORE_CARS] = ev.pre[STORE_CARS]
           /\ (ev.step \in {"success", "call"} /\ ev.promise = "resolved")
                 => version = DB_VERSION /\ objectStoreNames = StoreNames

\* A version-1 store holding family A was upgraded: the history stores were
\* added and family A is as it was.
C19_Witness ==
    /\ ev.op = "openDB" /\ ev.step = "upgraded" /\ ev.preVersion = 1
    /\ ev.preNames = {STORE_FAMILIES, STORE_CARS} /\ objectStoreNames = StoreNames
    /\ ev.arg.families # <<>>
    /\ rows[STORE_FAMILIES] = [k \in {"A"} |-> [familyName |-> "A", order |-> 7]]

\* C13: getAllSavedStates and getAllSavedParking resolve with the rows of
\* the table, each exactly once, in an order in which no element has a
\* smaller timestamp than the one after it - equal timestamps included -
\* and leave the table as it was.
C13_SortedReadIsDescending ==
    (ev.op \in GetAllSorted /\ ev.step = "success")
        => LET r == ev.result
               t == rows[StoreFor(ev.op)]
           IN /\ ev.promise = "resolved"
              /\ Len(r) = Cardinality(DOMAIN t)
              /\ \A k \in DOMAIN t : Cardinality({i \in 1..Len(r) : r[i] = t[k]}) = 1
              /\ \A i \in 1..(Len(r) - 1) : r[i].timestamp >= r[i + 1].timestamp
              /\ rows = ev.pre /\ keyGen = ev.preGen

\* A table whose oldest row has the smallest key and whose two other rows
\* share a timestamp was read: the two come first, the oldest last.
C13_Witness ==
    /\ ev.op \in GetAllSorted /\ ev.step = "success" /\ Len(ev.result) = 3
    /\ ev.result[1].timestamp = ev.result[2].timestamp
    /\ ev.result[2].timestamp > ev.result[3].timestamp
    /\ ev.result[3].id = 1

C16_DeleteRemovesExactlyOne ==
    ev.op \in Deletes
        => /\ ev.step = "success" => ev.promise = "resolved"
           /\ ev.step = "complete"
                 => LET s == StoreFor(ev.op) IN
                    /\ ev.promise = "resolved"
                    /\ DOMAIN rows[s] = DOMAIN ev.pre[s] \ {ev.arg}
                    /\ \A k \in DOMAIN rows[s] : rows[s][k] = ev.pre[s][k]
                    /\ ev.arg \notin DOMAIN ev.pre[s] => rows = ev.pre
                    /\ \A other \in StoreNames \ {s} : rows[other] = ev.pre[other]
                    /\ keyGen = ev.preGen

\* Row 2 of a history of three rows was deleted: rows 1 and 3 remain.
C16_Witness ==
    /\ ev.op = "deleteSavedState" /\ ev.step = "complete" /\ ev.arg = 2
    /\ DOMAIN ev.pre[STORE_SAVED_STATES] = {1, 2, 3}
    /\ DOMAIN rows[STORE_SAVED_STATES] = {1, 3}

\* C20 (as claimed): every completed append has taken a new key from the
\* key generator, greater than every key assigned before, and has left
\* every row that is still there as it was - for any record, one that
\* carries the id of an existing row included.
C20_AppendNeverReplaces ==
    (ev.op \in Appends /\ ev.step = "complete")
        => LET s == StoreFor(ev.op) IN
           /\ keyGen[s] > ev.preGen[s]
           /\ \A k \in DOMAIN ev.pre[s] \cap DOMAIN rows[s] : rows[s][k] = ev.pre[s][k]

\* C14 (as claimed): when the transaction or the open request of a call has
\* finished - completed, aborted or failed - the call's promise is settled:
\* resolved or rejected, never still pending.
C14_SettledWhenFinished ==
    ev.step \in {"complete", "abort", "error"} => ev.promise \in {"resolved", "rejected"}

\* C18 (as claimed): the process never opens more than one handle, and every
\* openDB that resolves, resolves with that one handle - also when openDB is
\* called again before the first call has answered.
C18_SingleHandle ==
    /\ connections <= 1
    /\ (ev.op = "openDB" /\ ev.promise = "resolved") => ev.result = 1

\* C21: a bulk put of a non-empty batch is resolved only by the completion
\* of its transaction, and then the table holds, for every key of the
\* batch, the last record the batch has for that key, and every other row
\* as before; a bulk put of an empty batch resolves in the call and changes
\* nothing.
C21_BulkResolvesAfterCommit ==
    (ev.op \in Bulks /\ ev.promise = "resolved")
        => LET s == StoreFor(ev.op)
               batch == ev.arg
               keys == {batch[i][KeyPath(s)] : i \in DOMAIN batch}
           IN IF Len(batch) = 0
              THEN ev.step = "call" /\ rows = ev.pre /\ Len(ops) = ev.preOps
              ELSE /\ ev.step = "complete"
                   /\ DOMAIN rows[s] = DOMAIN ev.pre[s] \cup keys
                   /\ \A i \in DOMAIN batch :
                         (\A j \in DOMAIN batch :
                              j > i => batch[j][KeyPath(s)] # batch[i][KeyPath(s)])
                             => rows[s][batch[i][KeyPath(s)]] = batch[i]
                   /\ \A k \in DOMAIN ev.pre[s] \ keys : rows[s][k] = ev.pre[s][k]
                   /\ \A other \in StoreNames \ {s} : rows[other] = ev.pre[other]

\* A batch of families A and B resolved on an empty table: both are rows.
C21_Witness ==
    /\ ev.op = "bulkAddFamilies" /\ ev.promise = "resolved" /\ ev.step = "complete"
    /\ Len(ev.arg) = 2 /\ ev.pre[STORE_FAMILIES] = EmptyTable
    /\ DOMAIN rows[STORE_FAMILIES] = {"A", "B"}

\* C22 (as claimed): when the transaction of a put, a delete by key or a
\* clear has finished and the call has resolved, the transaction has
\* completed and the table shows the call's effect: no such call has
\* resolved and then seen its transaction abort.
C22_ResolvedWriteIsCommitted ==
    (/\ ev.op \in Puts \cup Deletes \cup Clears
     /\ ev.promise = "resolved"
     /\ ev.step \in {"complete", "abort"})
        => LET s == StoreFor(ev.op) IN
           /\ ev.step = "complete"
           /\ ev.op \in Puts => rows[s][ev.arg[KeyPath(s)]] = ev.arg
           /\ ev.op \in Deletes => ev.arg \notin DOMAIN rows[s]
           /\ ev.op \in Clears => rows[s] = EmptyTable

====
